---------------------------- MODULE Spec2Model ----------------------------
(***************************************************************************)
(* A model of the REST API data provider (createDataProvider and its       *)
(* helpers generateResourceUrl, buildQueryParams, handleError).            *)
(*                                                                         *)
(* JavaScript values are tagged records, strings are TLA+ strings, header  *)
(* sets and option objects are functions from key to value.  Every await   *)
(* of the source is a point where a call is suspended; the code between    *)
(* two awaits is one action.  The exported helpers are also called         *)
(* directly, over sample inputs, each call being one action.               *)
(***************************************************************************)
EXTENDS Integers, Sequences, FiniteSets, TLC

(***************************************************************************)
(* Bounds of the model.                                                    *)
(***************************************************************************)
\* number of calls that can be in flight at once in the concurrent workload
MaxCalls == 2

\* number of trailing slashes a base address is given
MaxTrailingSlashes == 2

\* number of elements of a sort list and of a filter list
MaxEntries == 2

\* largest page number and largest page size given to pageToOffset
MaxPage == 4
MaxPageSize == 4

(***************************************************************************)
(* JavaScript values.                                                      *)
(***************************************************************************)
Undefined == [t |-> "undefined"]
Null == [t |-> "null"]
Num(n) == [t |-> "number", n |-> n]
Str(s) == [t |-> "string", s |-> s]
Bool(b) == [t |-> "boolean", b |-> b]
Arr(items) == [t |-> "array", items |-> items]
Obj(props) == [t |-> "object", props |-> props]

\* the object literal {}
EmptyObject == [k \in {} |-> Undefined]

\* an Error object and the own properties the provider reads or writes
ErrorObject(name, message, statusCode, errors) ==
    [t |-> "error", name |-> name, message |-> message,
     statusCode |-> statusCode, errors |-> errors]

\* the TypeError of reading a property of null or undefined
TypeError == ErrorObject("TypeError", Str("Cannot read properties"), Undefined, Undefined)

\* the SyntaxError of Response.json() on a body that is not JSON
SyntaxError == ErrorObject("SyntaxError", Str("Unexpected token"), Undefined, Undefined)

\* the TypeError fetch rejects with when the network call cannot complete
NetworkError == ErrorObject("TypeError", Str("Failed to fetch"), Undefined, Undefined)

\* the DOMException fetch rejects with when the request is aborted
AbortError ==
    ErrorObject("AbortError", Str("The operation was aborted."), Undefined, Undefined)

\* new Error(), thrown by an injected httpClient: the message is the empty string
BareError == ErrorObject("Error", Str(""), Undefined, Undefined)

\* ToBoolean
Truthy(v) ==
    CASE v.t = "undefined" -> FALSE
      [] v.t = "null" -> FALSE
      [] v.t = "number" -> v.n # 0
      [] v.t = "string" -> v.s # ""
      [] v.t = "boolean" -> v.b
      [] OTHER -> TRUE

Nullish(v) == v.t \in {"undefined", "null"}

\* a || b
Or(a, b) == IF Truthy(a) THEN a ELSE b

\* 'k' in v, for an object v
HasProp(v, k) == v.t = "object" /\ k \in DOMAIN v.props

\* v.k for a v that is neither null nor undefined (those throw a TypeError)
Get(v, k) ==
    CASE v.t = "object" -> IF k \in DOMAIN v.props THEN v.props[k] ELSE Undefined
      [] v.t = "array" -> IF k = "length" THEN Num(Len(v.items)) ELSE Undefined
      [] v.t = "string" -> IF k = "length" THEN Num(Len(v.s)) ELSE Undefined
      [] v.t = "error" -> IF k \in {"name", "message", "statusCode", "errors"}
                          THEN v[k] ELSE Undefined
      [] OTHER -> Undefined

\* v?.k
OptGet(v, k) == IF Nullish(v) THEN Undefined ELSE Get(v, k)

\* the properties of { ...a, ...b } : the keys of both, b winning on an exact key
\* match (a and b are property maps)
SpreadProps(a, b) ==
    [k \in DOMAIN a \cup DOMAIN b |-> IF k \in DOMAIN b THEN b[k] ELSE a[k]]

\* { ...a, ...b } for objects a and b; spreading undefined or null adds nothing
Spread(a, b) ==
    Obj(SpreadProps(IF a.t = "object" THEN a.props ELSE EmptyObject,
                    IF b.t = "object" THEN b.props ELSE EmptyObject))

(***************************************************************************)
(* Strings.                                                                *)
(***************************************************************************)
CharAt(s, i) == SubSeq(s, i, i)

endsWith(s, suffix) ==
    Len(s) >= Len(suffix) /\ SubSeq(s, Len(s) - Len(suffix) + 1, Len(s)) = suffix

startsWith(s, prefix) ==
    Len(s) >= Len(prefix) /\ SubSeq(s, 1, Len(prefix)) = prefix

\* the white space String.prototype.trim removes, as far as the inputs have it
WhiteSpace == {" ", "\t", "\n"}

RECURSIVE trimStart(_)
trimStart(s) ==
    IF s # "" /\ CharAt(s, 1) \in WhiteSpace THEN trimStart(SubSeq(s, 2, Len(s))) ELSE s

RECURSIVE trimEnd(_)
trimEnd(s) ==
    IF s # "" /\ CharAt(s, Len(s)) \in WhiteSpace THEN trimEnd(SubSeq(s, 1, Len(s) - 1))
    ELSE s

\* String.prototype.trim
trim(s) == trimEnd(trimStart(s))

RECURSIVE JoinWith(_, _)
\* Array.prototype.join of a sequence of strings
JoinWith(parts, sep) ==
    IF parts = <<>> THEN ""
    ELSE IF Len(parts) = 1 THEN parts[1]
    ELSE parts[1] \o sep \o JoinWith(Tail(parts), sep)

RECURSIVE JSString(_)
\* String(v), also what a template literal makes of v
JSString(v) ==
    CASE v.t = "undefined" -> "undefined"
      [] v.t = "null" -> "null"
      [] v.t = "number" -> ToString(v.n)
      [] v.t = "string" -> v.s
      [] v.t = "boolean" -> IF v.b THEN "true" ELSE "false"
      [] v.t = "array" ->
           JoinWith([i \in 1..Len(v.items) |->
                        IF Nullish(v.items[i]) THEN "" ELSE JSString(v.items[i])], ",")
      [] OTHER -> "[object Object]"

\* the order in which the properties of the modelled objects were inserted
PropOrder == <<"id", "name", "data", "total", "message", "error", "errors",
               "payload", "success", "email", "timestamp">>

RECURSIVE JSONText(_)
\* JSON.stringify of a value that is not undefined
JSONText(v) ==
    CASE v.t = "null" -> "null"
      [] v.t = "number" -> ToString(v.n)
      [] v.t = "string" -> "\"" \o v.s \o "\""
      [] v.t = "boolean" -> IF v.b THEN "true" ELSE "false"
      [] v.t = "array" ->
           "[" \o JoinWith([i \in 1..Len(v.items) |->
                              IF v.items[i].t = "undefined" THEN "null"
                              ELSE JSONText(v.items[i])], ",") \o "]"
      [] v.t = "object" ->
           LET keys == SelectSeq(PropOrder,
                           LAMBDA k : k \in DOMAIN v.props /\ v.props[k].t # "undefined")
           IN "{" \o JoinWith([i \in 1..Len(keys) |->
                                 "\"" \o keys[i] \o "\":" \o JSONText(v.props[keys[i]])], ",")
                  \o "}"
      [] OTHER -> "{}"

\* JSON.stringify: undefined stays undefined, anything else becomes a string
JSONStringify(v) == IF v.t = "undefined" THEN Undefined ELSE Str(JSONText(v))

(***************************************************************************)
(* utils.ts                                                                *)
(***************************************************************************)
\* the base address if one trailing slash at most were removed
cleanBaseUrlOnce(baseUrl) ==
    IF endsWith(baseUrl, "/") THEN SubSeq(baseUrl, 1, Len(baseUrl) - 1) ELSE baseUrl

RECURSIVE cleanBaseUrl(_)
\* the while loop of generateResourceUrl: all trailing slashes removed
cleanBaseUrl(baseUrl) ==
    IF endsWith(baseUrl, "/") THEN cleanBaseUrl(SubSeq(baseUrl, 1, Len(baseUrl) - 1))
    ELSE baseUrl

\* generateResourceUrl if it tested the id for truth
generateResourceUrlTruthyId(baseUrl, resource, id) ==
    LET cleanResource == trim(resource)
        path == IF Truthy(id) THEN cleanResource \o "/" \o JSString(id)
                ELSE cleanResource
    IN cleanBaseUrl(baseUrl) \o "/" \o path

\* id is Undefined when the argument is not given
generateResourceUrl(baseUrl, resource, id) ==
    LET cleanResource == trim(resource)
        path == IF id # Undefined THEN cleanResource \o "/" \o JSString(id)
                ELSE cleanResource
    IN cleanBaseUrl(baseUrl) \o "/" \o path

\* one character as the application/x-www-form-urlencoded serializer writes it
FormEncodeChar(c) ==
    CASE c = " " -> "+"
      [] c = ":" -> "%3A"
      [] c = "[" -> "%5B"
      [] c = "]" -> "%5D"
      [] c = "/" -> "%2F"
      [] c = "&" -> "%26"
      [] c = "=" -> "%3D"
      [] c = "+" -> "%2B"
      [] c = "%" -> "%25"
      [] c = "," -> "%2C"
      [] c = "?" -> "%3F"
      [] OTHER -> c

RECURSIVE FormEncode(_)
FormEncode(s) ==
    IF s = "" THEN "" ELSE FormEncodeChar(CharAt(s, 1)) \o FormEncode(SubSeq(s, 2, Len(s)))

\* the query string if names and values were written as they are
URLSearchParamsUnencoded(entries) ==
    JoinWith([i \in 1..Len(entries) |-> entries[i][1] \o "=" \o entries[i][2]], "&")

\* the query string if each entry were set, replacing the entries of its name,
\* instead of appended
URLSearchParamsSet(entries) ==
    LET n == Len(entries)
        firsts == SelectSeq([i \in 1..n |-> i],
                            LAMBDA i : \A j \in 1..(i - 1) : entries[j][1] # entries[i][1])
        last(i) == CHOOSE j \in i..n :
                      /\ entries[j][1] = entries[i][1]
                      /\ \A k \in (j + 1)..n : entries[k][1] # entries[i][1]
    IN JoinWith([m \in 1..Len(firsts) |->
                    FormEncode(entries[firsts[m]][1]) \o "="
                        \o FormEncode(entries[last(firsts[m])][2])], "&")

\* URLSearchParams.prototype.toString of a list of <<name, value>> entries
URLSearchParamsToString(entries) ==
    JoinWith([i \in 1..Len(entries) |->
                FormEncode(entries[i][1]) \o "=" \o FormEncode(entries[i][2])], "&")

\* the entries if the filters were appended before the sort
QueryEntriesFiltersFirst(params) ==
    LET pagination ==
            IF Truthy(params.pagination)
            THEN << <<"page", JSString(Get(params.pagination, "page"))>>,
                    <<"pageSize", JSString(Get(params.pagination, "pageSize"))>> >>
            ELSE <<>>
        sort ==
            IF Truthy(params.sort) /\ Len(params.sort.items) > 0
            THEN [i \in 1..Len(params.sort.items) |->
                    <<"sort", params.sort.items[i].field \o ":"
                                 \o params.sort.items[i].order>>]
            ELSE <<>>
        filters ==
            IF Truthy(params.filters) /\ Len(params.filters.items) > 0
            THEN [i \in 1..Len(params.filters.items) |->
                    <<"filter[" \o params.filters.items[i].field \o "]["
                         \o params.filters.items[i].operator \o "]",
                      JSString(params.filters.items[i].value)>>]
            ELSE <<>>
    IN pagination \o filters \o sort

\* the entries buildQueryParams appends, in order; an absent field is Undefined,
\* sort and filters are arrays of records
QueryEntries(params) ==
    LET pagination ==
            IF Truthy(params.pagination)
            THEN << <<"page", JSString(Get(params.pagination, "page"))>>,
                    <<"pageSize", JSString(Get(params.pagination, "pageSize"))>> >>
            ELSE <<>>
        sort ==
            IF Truthy(params.sort) /\ Len(params.sort.items) > 0
            THEN [i \in 1..Len(params.sort.items) |->
                    <<"sort", params.sort.items[i].field \o ":"
                                 \o params.sort.items[i].order>>]
            ELSE <<>>
        filters ==
            IF Truthy(params.filters) /\ Len(params.filters.items) > 0
            THEN [i \in 1..Len(params.filters.items) |->
                    <<"filter[" \o params.filters.items[i].field \o "]["
                         \o params.filters.items[i].operator \o "]",
                      JSString(params.filters.items[i].value)>>]
            ELSE <<>>
    IN pagination \o sort \o filters

buildQueryParams(params) == URLSearchParamsToString(QueryEntries(params))

\* pageToOffset if pages were numbered from 0
pageToOffsetZeroBased(page, pageSize) == page * pageSize

pageToOffset(page, pageSize) == (page - 1) * pageSize

(***************************************************************************)
(* errorHandler.ts                                                         *)
(***************************************************************************)
\* handleError without its catch block: what the try block throws escapes
handleErrorNoCatch(response, json) ==
    LET statusCode == Num(response.status)
        statusText == Str(response.statusText)
    IN IF ~json.ok THEN SyntaxError
       ELSE IF Nullish(json.value) THEN TypeError
       ELSE ErrorObject("ApiError",
                        Or(Or(Get(json.value, "message"), Get(json.value, "error")),
                           statusText),
                        statusCode,
                        Get(json.value, "errors"))

\* handleError if it read the message field alone
handleErrorMessageOnly(response, json) ==
    LET statusCode == Num(response.status)
        statusText == Str(response.statusText)
    IN IF json.ok /\ ~Nullish(json.value)
       THEN ErrorObject("ApiError", Or(Get(json.value, "message"), statusText),
                        statusCode, Get(json.value, "errors"))
       ELSE ErrorObject("ApiError", Or(statusText, Str("An error occurred")),
                        statusCode, Undefined)

\* handleError(response), once response.json() has settled: json is
\* [ok |-> TRUE, value |-> the parsed body] or [ok |-> FALSE] when it rejected.
\* Reading data.message of a null body throws inside the try block, which the
\* catch block turns into the status-text fallback.
handleError(response, json) ==
    LET statusCode == Num(response.status)
        statusText == Str(response.statusText)
    IN IF json.ok /\ ~Nullish(json.value)
       THEN ErrorObject("ApiError",
                        Or(Or(Get(json.value, "message"), Get(json.value, "error")),
                           statusText),
                        statusCode,
                        Get(json.value, "errors"))
       ELSE ErrorObject("ApiError", Or(statusText, Str("An error occurred")),
                        statusCode, Undefined)

\* new Error(message): the message is String(message), or "" when it is undefined
NewErrorMessage(message) ==
    IF message.t = "undefined" THEN Str("") ELSE Str(JSString(message))

\* the handler of createErrorHandler if it wrapped every input
createErrorHandlerAlwaysWraps(input) ==
    IF Nullish(input.error) THEN [threw |-> TRUE, same |-> FALSE, error |-> TypeError,
                                  ownStatusCode |-> FALSE]
    ELSE [threw |-> FALSE, same |-> FALSE,
          error |-> ErrorObject("ApiError",
                                NewErrorMessage(Or(Get(input.error, "message"),
                                                   Str("An unexpected error occurred"))),
                                Or(Get(input.error, "statusCode"), Num(500)),
                                Undefined),
          ownStatusCode |-> TRUE]

\* createErrorHandler()(error).  The input is [error, ownStatusCode]:
\* ownStatusCode tells whether 'statusCode' in error holds.  The result is
\* [threw, same, error, ownStatusCode]: same tells that the input object itself
\* is returned, not a new one.  Reading error.message of null or undefined
\* throws a TypeError.
createErrorHandler(input) ==
    IF input.error.t = "error" /\ input.ownStatusCode
    THEN [threw |-> FALSE, same |-> TRUE, error |-> input.error, ownStatusCode |-> TRUE]
    ELSE IF Nullish(input.error)
    THEN [threw |-> TRUE, same |-> FALSE, error |-> TypeError, ownStatusCode |-> FALSE]
    ELSE [threw |-> FALSE, same |-> FALSE,
          error |-> ErrorObject("ApiError",
                                NewErrorMessage(Or(Get(input.error, "message"),
                                                   Str("An unexpected error occurred"))),
                                Or(Get(input.error, "statusCode"), Num(500)),
                                Undefined),
          ownStatusCode |-> TRUE]

(***************************************************************************)
(* httpClient.ts.                                                          *)
(***************************************************************************)
\* the client if the base headers were spread over the call's headers
createHttpClientBaseWins(baseConfig, options) ==
    Spread(Spread(baseConfig, options),
           Obj([headers |->
                  Spread(Or(OptGet(options, "headers"), Obj(EmptyObject)),
                         Or(OptGet(baseConfig, "headers"), Obj(EmptyObject)))]))

\* createHttpClient(baseConfig)(url, options): the second argument of fetch
createHttpClient(baseConfig, options) ==
    Spread(Spread(baseConfig, options),
           Obj([headers |->
                  Spread(Or(OptGet(baseConfig, "headers"), Obj(EmptyObject)),
                         Or(OptGet(options, "headers"), Obj(EmptyObject)))]))

(***************************************************************************)
(* The caller's configuration: sample callbacks.                           *)
(***************************************************************************)
apiUrl == "https://api.example.com/"

\* a static header set
StaticHeaders == Obj([A |-> Str("1"), B |-> Str("2")])

\* headers: () => ({ Authorization: `Bearer ${getToken()}` })
HeaderFunction(tok) == Obj([Authorization |-> Str("Bearer " \o tok)])

\* the values the credential takes
Tokens == {"token-1", "token-2"}

\* what a failing header function rejects with
HeaderSourceError == ErrorObject("Error", Str("token unavailable"), Undefined, Undefined)

\* transformRequest: (data) => { if (!data.name) throw new Error('name required');
\*                               return { ...data, timestamp: 1 } }
\* as [threw, value]
TransformRequestFn(data) ==
    IF Truthy(Get(data, "name"))
    THEN [threw |-> FALSE, value |-> Spread(data, Obj([timestamp |-> Num(1)]))]
    ELSE [threw |-> TRUE,
          value |-> ErrorObject("Error", Str("name required"), Undefined, Undefined)]

\* transformResponse: (data) => data.payload
TransformResponseFn(data) ==
    IF Nullish(data) THEN [threw |-> TRUE, value |-> TypeError]
    ELSE [threw |-> FALSE, value |-> Get(data, "payload")]

\* errorHandler: (error) => { if (error.name === 'SyntaxError') throw new Error('bad payload');
\*                            const e = new Error('Custom: ' + error.message);
\*                            e.statusCode = error.statusCode; return e }
ErrorHandlerFn(error) ==
    IF error.name = "SyntaxError"
    THEN [threw |-> TRUE,
          value |-> ErrorObject("Error", Str("bad payload"), Undefined, Undefined)]
    ELSE [threw |-> FALSE,
          value |-> ErrorObject("Error", Str("Custom: " \o JSString(error.message)),
                                error.statusCode, Undefined)]

Configs ==
    [headers : {"absent", "static", "function"},
     transformRequest : BOOLEAN,
     transformResponse : BOOLEAN,
     errorHandler : BOOLEAN]

(***************************************************************************)
(* dataProvider.ts: the pieces of handleRequest between its awaits.        *)
(***************************************************************************)
\* getHeaders if the header set were computed once, at construction
getHeadersCached(configHeaders, tok) ==
    CASE configHeaders = "function" -> HeaderFunction("token-1")
      [] configHeaders = "static" -> StaticHeaders
      [] OTHER -> Obj(EmptyObject)

\* getHeaders up to its await: the header set a source that does not fail
\* produces when it is invoked while the credential is tok
getHeaders(configHeaders, tok) ==
    CASE configHeaders = "function" -> HeaderFunction(tok)
      [] configHeaders = "static" -> StaticHeaders
      [] OTHER -> Obj(EmptyObject)

DefaultHeaders == Obj(("Content-Type" :> Str("application/json")))

\* the merge if the configuration headers were spread last
MergedHeadersConfigLast(headers, options) ==
    Spread(Spread(DefaultHeaders, Or(Get(options, "headers"), Obj(EmptyObject))),
           headers)

\* the headers option handleRequest passes to httpClient
MergedHeaders(headers, options) ==
    Spread(Spread(DefaultHeaders, headers),
           Or(Get(options, "headers"), Obj(EmptyObject)))

\* the second argument if the caller's options were spread over the merged headers
HttpClientOptionsOptionsLast(headers, options) ==
    Spread(Obj([headers |-> MergedHeaders(headers, options)]), options)

\* the second argument of httpClient
HttpClientOptions(headers, options) ==
    Spread(options, Obj([headers |-> MergedHeaders(headers, options)]))

\* the catch block if what the error handler throws were handed to it again
CatchHandlerAgain(cfg, error) ==
    IF cfg.errorHandler
    THEN IF ErrorHandlerFn(error).threw
         THEN [error |-> ErrorHandlerFn(ErrorHandlerFn(error).value).value,
               handlerCalls |-> 2, handlerArg |-> ErrorHandlerFn(error).value,
               handlerThrew |-> ErrorHandlerFn(ErrorHandlerFn(error).value).threw]
         ELSE [error |-> ErrorHandlerFn(error).value, handlerCalls |-> 1,
               handlerArg |-> error, handlerThrew |-> FALSE]
    ELSE [error |-> error, handlerCalls |-> 0, handlerArg |-> Undefined,
          handlerThrew |-> FALSE]

\* the catch block: what handleRequest rejects with for a caught error, as
\* [error, handlerCalls, handlerArg, handlerThrew]
Catch(cfg, error) ==
    IF cfg.errorHandler
    THEN [error |-> ErrorHandlerFn(error).value, handlerCalls |-> 1,
          handlerArg |-> error, handlerThrew |-> ErrorHandlerFn(error).threw]
    ELSE [error |-> error, handlerCalls |-> 0, handlerArg |-> Undefined,
          handlerThrew |-> FALSE]

\* a callback applied to arg, as [threw, value, calls, arg]
Invoke(outcome, arg) ==
    [threw |-> outcome.threw, value |-> outcome.value, calls |-> 1, arg |-> arg]

\* a value used as it is, no callback being invoked
NotInvoked(value) ==
    [threw |-> FALSE, value |-> value, calls |-> 0, arg |-> Undefined]

\* the response transform if it were given the unwrapped payload
ApplyTransformResponseUnwrapped(cfg, data) ==
    LET payload == IF HasProp(data, "data") THEN Get(data, "data") ELSE data
    IN IF cfg.transformResponse THEN Invoke(TransformResponseFn(payload), payload)
       ELSE NotInvoked(data)

\* return transformResponse ? transformResponse(data) : data
ApplyTransformResponse(cfg, data) ==
    IF cfg.transformResponse THEN Invoke(TransformResponseFn(data), data)
    ELSE NotInvoked(data)

\* create and update if they serialized the variables as given
ApplyTransformRequestSkipped(cfg, variables) == NotInvoked(variables)

\* const body = transformRequest ? transformRequest(variables) : variables
ApplyTransformRequest(cfg, variables) ==
    IF cfg.transformRequest THEN Invoke(TransformRequestFn(variables), variables)
    ELSE NotInvoked(variables)

(***************************************************************************)
(* dataProvider.ts: what each operation does with the value handleRequest  *)
(* resolved with, as [threw, value].  Reading result.data of a null or     *)
(* undefined result throws a TypeError, outside handleRequest's try block. *)
(***************************************************************************)
\* result.data || result
DataOrResult(result) == Or(Get(result, "data"), result)

\* result.total || result.data?.length || 0
TotalOf(result) ==
    Or(Or(Get(result, "total"), OptGet(Get(result, "data"), "length")), Num(0))

ShapeResult(op, params, result) ==
    IF Nullish(result) THEN [threw |-> TRUE, value |-> TypeError]
    ELSE [threw |-> FALSE,
          value |->
            CASE op = "getList" ->
                   Obj([data |-> DataOrResult(result),
                        total |-> TotalOf(result),
                        page |-> OptGet(params.pagination, "page"),
                        pageSize |-> OptGet(params.pagination, "pageSize")])
              [] op = "deleteOne" ->
                   Obj([data |-> Or(DataOrResult(result), Obj([id |-> params.id]))])
              [] OTHER -> Obj([data |-> DataOrResult(result)])]

\* the url argument and the options argument of handleRequest, per operation;
\* body is the (transformed) variables of create and update
RequestUrl(op, params) ==
    CASE op = "getList" ->
           LET url == generateResourceUrl(apiUrl, params.resource, Undefined)
               queryParams == buildQueryParams(params)
           IN IF queryParams # "" THEN url \o "?" \o queryParams ELSE url
      [] op = "create" -> generateResourceUrl(apiUrl, params.resource, Undefined)
      [] op = "custom" ->
           LET fullUrl == IF startsWith(params.url, "http") THEN params.url
                          ELSE generateResourceUrl(apiUrl, params.url, Undefined)
               queryString == IF Truthy(params.query)
                              THEN URLSearchParamsToString(
                                     [i \in 1..Len(params.query.items) |->
                                        <<params.query.items[i][1],
                                          JSString(params.query.items[i][2])>>])
                              ELSE ""
           IN IF queryString # "" THEN fullUrl \o "?" \o queryString ELSE fullUrl
      [] OTHER -> generateResourceUrl(apiUrl, params.resource, params.id)

\* the options if meta were spread before the operation's own fields
RequestOptionsMetaFirst(op, params, body) ==
    CASE op \in {"getList", "getOne"} ->
           Spread(params.meta, Obj([method |-> Str("GET")]))
      [] op = "create" ->
           Spread(params.meta, Obj([method |-> Str("POST"), body |-> JSONStringify(body)]))
      [] op = "update" ->
           Spread(params.meta, Obj([method |-> Str("PUT"), body |-> JSONStringify(body)]))
      [] op = "deleteOne" ->
           Spread(params.meta, Obj([method |-> Str("DELETE")]))
      [] OTHER ->
           Spread(params.meta,
                  Obj([method |-> Str(params.method),
                       body |-> IF Truthy(params.payload) THEN JSONStringify(params.payload)
                                ELSE Undefined,
                       headers |-> params.headers]))

RequestOptions(op, params, body) ==
    CASE op \in {"getList", "getOne"} ->
           Spread(Obj([method |-> Str("GET")]), params.meta)
      [] op = "create" ->
           Spread(Obj([method |-> Str("POST"), body |-> JSONStringify(body)]), params.meta)
      [] op = "update" ->
           Spread(Obj([method |-> Str("PUT"), body |-> JSONStringify(body)]), params.meta)
      [] op = "deleteOne" ->
           Spread(Obj([method |-> Str("DELETE")]), params.meta)
      [] OTHER ->
           Spread(Obj([method |-> Str(params.method),
                       body |-> IF Truthy(params.payload) THEN JSONStringify(params.payload)
                                ELSE Undefined,
                       headers |-> params.headers]),
                  params.meta)

(***************************************************************************)
(* The inputs of the model: what callers pass and what the backend answers.*)
(* The sequential workload runs one call at a time over the full input     *)
(* sets; the concurrent workload keeps MaxCalls calls in flight over one   *)
(* input of each kind, and its calls beyond the first are getOne calls.    *)
(***************************************************************************)
Slots == 1..MaxCalls

ActiveSlots(w) == IF w = "sequential" THEN {1} ELSE Slots

\* the operations a caller may start in slot i
OpsOf(w, i) ==
    IF w = "sequential" \/ i = 1
    THEN {"getList", "getOne", "create", "update", "deleteOne", "custom"}
    ELSE {"getOne"}

\* per-call options (meta)
Metas(w) ==
    IF w = "sequential"
    THEN {Undefined,
          Obj([method |-> Str("PATCH")]),
          Obj([body |-> Str("raw")]),
          Obj([headers |-> Obj([B |-> Str("5")]
                               @@ ("Content-Type" :> Str("text/plain")))])}
    ELSE {Undefined}

\* pagination, sort and filters of getList
ListQueries(w) ==
    {[pagination |-> Undefined, sort |-> Undefined, filters |-> Undefined]}
    \cup
    (IF w = "sequential"
     THEN {[pagination |-> Obj([page |-> Num(2), pageSize |-> Num(20)]),
            sort |-> Arr(<<>>), filters |-> Undefined],
           [pagination |-> Obj([page |-> Num(2), pageSize |-> Num(20)]),
            sort |-> Arr(<<[field |-> "name", order |-> "asc"]>>),
            filters |-> Arr(<<[field |-> "status", operator |-> "eq",
                               value |-> Str("active")]>>)]}
     ELSE {})

\* the variables of create and update (the sample request transform rejects the
\* second)
VariablesOf(w) == {Obj([name |-> Str("Test")]), Obj(EmptyObject)}

Ids(w) == {Num(1)}

\* the arguments of custom
CustomCalls(w) ==
    {[url |-> "stats", method |-> "GET", payload |-> Undefined,
      query |-> Arr(<< <<"period", Str("month")>> >>), headers |-> Undefined]}
    \cup
    (IF w = "sequential"
     THEN {[url |-> "https://external-api.com/data", method |-> "GET",
            payload |-> Undefined, query |-> Undefined,
            headers |-> Obj([B |-> Str("3"), C |-> Str("4")])],
           [url |-> "users/bulk", method |-> "POST",
            payload |-> Obj([name |-> Str("Test")]), query |-> Undefined,
            headers |-> Undefined],
           [url |-> "httpstats/daily", method |-> "GET", payload |-> Undefined,
            query |-> Undefined, headers |-> Undefined],
           [url |-> "ftp://files.example.com/export", method |-> "GET",
            payload |-> Undefined, query |-> Undefined, headers |-> Undefined]}
     ELSE {})

\* the response descriptors the transport resolves with
Responses(w) ==
    {[ok |-> TRUE, status |-> 200, statusText |-> "OK"],
     [ok |-> FALSE, status |-> 404, statusText |-> "Not Found"]}
    \cup
    (IF w = "sequential"
     THEN {[ok |-> FALSE, status |-> 500, statusText |-> ""]}
     ELSE {})

JsonOk(v) == [ok |-> TRUE, value |-> v]
JsonFails == [ok |-> FALSE, value |-> Undefined]

\* what response.json() settles with on a success response
OkBodies(w) ==
    {JsonOk(Obj([data |-> Arr(<<Num(1), Num(2)>>)]))}
    \cup
    (IF w = "sequential"
     THEN {JsonFails,
           JsonOk(Null),
           JsonOk(Num(0)),
           JsonOk(Arr(<<Num(1), Num(2)>>)),
           JsonOk(Obj(EmptyObject)),
           JsonOk(Obj([id |-> Num(1)])),
           JsonOk(Obj([data |-> Obj([id |-> Num(1)])])),
           JsonOk(Obj([data |-> Num(0)])),
           JsonOk(Obj([data |-> Bool(FALSE)])),
           JsonOk(Obj([data |-> Str("")])),
           JsonOk(Obj([data |-> Null])),
           JsonOk(Obj([data |-> Arr(<<>>)])),
           JsonOk(Obj([data |-> Arr(<<Num(1), Num(2)>>), total |-> Num(5)])),
           JsonOk(Obj([data |-> Arr(<<Num(1), Num(2)>>), total |-> Num(0)])),
           JsonOk(Obj([data |-> Obj([id |-> Num(1)]),
                       payload |-> Obj([data |-> Obj([id |-> Num(2)])])])),
           JsonOk(Obj([success |-> Bool(TRUE), payload |-> Obj([id |-> Num(1)])]))}
     ELSE {})

\* what response.json() settles with on a non-success response
ErrorBodies(w) ==
    {JsonOk(Obj([message |-> Str("User not found")]))}
    \cup
    (IF w = "sequential"
     THEN {JsonFails,
           JsonOk(Null),
           JsonOk(Obj(EmptyObject)),
           JsonOk(Obj([error |-> Str("Bad request")])),
           JsonOk(Obj([message |-> Str(""), error |-> Str("Bad request")])),
           JsonOk(Obj([message |-> Num(42)])),
           JsonOk(Str("oops")),
           JsonOk(Obj([message |-> Str("Invalid"),
                       errors |-> Obj([name |-> Arr(<<Str("required")>>)])]))}
     ELSE {})

\* what the transport rejects with when the network call cannot complete
TransportFailures(w) ==
    {NetworkError} \cup (IF w = "sequential" THEN {AbortError, BareError} ELSE {})

\* whether an invocation of the header source may fail
HeaderOutcomes(configHeaders) == IF configHeaders = "function" THEN BOOLEAN ELSE {TRUE}

(***************************************************************************)
(* State.                                                                  *)
(***************************************************************************)
VARIABLES
    config,     \* the DataProviderConfig, read-only after construction
    workload,   \* "sequential" or "concurrent"
    token,      \* the credential the header function reads
    calls,      \* slot -> the call in flight in that slot
    evaluation  \* the last direct call of an exported helper, with its result

vars == <<config, workload, token, calls, evaluation>>

\* no helper has been called directly
NotEvaluated == [fn |-> "none"]

\* a slot with no call in it
IdleCall ==
    [pc |-> "idle", op |-> "", params |-> Undefined, url |-> "", options |-> Undefined,
     transformRequestCalls |-> 0, transformRequestArg |-> Undefined,
     headerCalls |-> 0, tokenRead |-> "", headerResult |-> JsonFails,
     transportCalls |-> 0, request |-> Undefined, response |-> Undefined,
     json |-> Undefined,
     transformResponseCalls |-> 0, transformResponseArg |-> Undefined,
     failure |-> "none", caught |-> Undefined,
     handlerCalls |-> 0, handlerArg |-> Undefined, handlerThrew |-> FALSE,
     outcome |-> Undefined]

Init ==
    /\ config \in Configs
    /\ workload = "sequential"
    /\ token = "token-1"
    /\ calls = [i \in Slots |-> IdleCall]
    /\ evaluation = NotEvaluated

\* the concurrent workload: a function-valued header source and a request transform
InitConcurrent ==
    /\ config \in {c \in Configs : c.headers = "function" /\ c.transformRequest
                                    /\ ~c.transformResponse}
    /\ workload = "concurrent"
    /\ token = "token-1"
    /\ calls = [i \in Slots |-> IdleCall]
    /\ evaluation = NotEvaluated

(***************************************************************************)
(* Actions.  A call runs from the operation's entry to its first await in  *)
(* one step (Start), then from each settled await to the next.             *)
(***************************************************************************)
\* the catch block if it swallowed the error and left the call pending
RejectSwallowed(c, kind, error) ==
    [c EXCEPT !.failure = kind, !.caught = error]

\* the catch block if it returned what the error handler returns
RejectReturned(c, kind, error) ==
    LET thrown == Catch(config, error)
    IN [c EXCEPT !.pc = IF thrown.handlerCalls = 1 /\ ~thrown.handlerThrew
                        THEN "resolved" ELSE "rejected",
                 !.failure = kind, !.caught = error,
                 !.handlerCalls = thrown.handlerCalls,
                 !.handlerArg = thrown.handlerArg,
                 !.handlerThrew = thrown.handlerThrew,
                 !.outcome = thrown.error]

\* the call rejects with what the catch block of handleRequest throws for error
Reject(c, kind, error) ==
    LET thrown == Catch(config, error)
    IN [c EXCEPT !.pc = "rejected", !.failure = kind, !.caught = error,
                 !.handlerCalls = thrown.handlerCalls,
                 !.handlerArg = thrown.handlerArg,
                 !.handlerThrew = thrown.handlerThrew,
                 !.outcome = thrown.error]

\* an operation from its entry to the await of getHeaders() in handleRequest:
\* the request transform of create and update runs before handleRequest is
\* entered, so what it throws rejects the call directly; the header source is
\* invoked (headerOk: whether it will deliver a header set)
Start(i, op, params, headerOk) ==
    LET body == IF op \in {"create", "update"}
                THEN ApplyTransformRequest(config, params.variables)
                ELSE NotInvoked(Undefined)
        c == [IdleCall EXCEPT !.op = op, !.params = params,
                              !.transformRequestCalls = body.calls,
                              !.transformRequestArg = body.arg]
    IN /\ i \in ActiveSlots(workload)
       /\ calls[i].pc = "idle"
       /\ op \in OpsOf(workload, i)
       /\ calls' =
            [calls EXCEPT ![i] =
               IF body.threw
               THEN [c EXCEPT !.pc = "rejected", !.failure = "requestTransform",
                              !.outcome = body.value]
               ELSE [c EXCEPT !.pc = "headers",
                              !.url = RequestUrl(op, params),
                              !.options = RequestOptions(op, params, body.value),
                              !.headerCalls = IF config.headers = "function" THEN 1 ELSE 0,
                              !.tokenRead = token,
                              !.headerResult =
                                  IF headerOk
                                  THEN JsonOk(getHeaders(config.headers, token))
                                  ELSE [ok |-> FALSE, value |-> HeaderSourceError]]]
       /\ UNCHANGED <<config, workload, token, evaluation>>

getList(i) ==
    \E q \in ListQueries(workload), meta \in Metas(workload),
       headerOk \in HeaderOutcomes(config.headers) :
        Start(i, "getList",
              [resource |-> "users", pagination |-> q.pagination, sort |-> q.sort,
               filters |-> q.filters, meta |-> meta], headerOk)

getOne(i) ==
    \E id \in Ids(workload), meta \in Metas(workload),
       headerOk \in HeaderOutcomes(config.headers) :
        Start(i, "getOne", [resource |-> "users", id |-> id, meta |-> meta], headerOk)

create(i) ==
    \E variables \in VariablesOf(workload), meta \in Metas(workload),
       headerOk \in HeaderOutcomes(config.headers) :
        Start(i, "create",
              [resource |-> "users", variables |-> variables, meta |-> meta], headerOk)

update(i) ==
    \E id \in Ids(workload), variables \in VariablesOf(workload),
       meta \in Metas(workload), headerOk \in HeaderOutcomes(config.headers) :
        Start(i, "update",
              [resource |-> "users", id |-> id, variables |-> variables, meta |-> meta],
              headerOk)

deleteOne(i) ==
    \E id \in Ids(workload), meta \in Metas(workload),
       headerOk \in HeaderOutcomes(config.headers) :
        Start(i, "deleteOne", [resource |-> "users", id |-> id, meta |-> meta], headerOk)

custom(i) ==
    \E p \in CustomCalls(workload), meta \in Metas(workload),
       headerOk \in HeaderOutcomes(config.headers) :
        Start(i, "custom",
              [url |-> p.url, method |-> p.method, payload |-> p.payload,
               query |-> p.query, headers |-> p.headers, meta |-> meta], headerOk)

\* await getHeaders() if a failing header source were treated as an empty header set
HeadersSettleLenient(i) ==
    LET c == calls[i]
        headers == IF c.headerResult.ok THEN c.headerResult.value ELSE Obj(EmptyObject)
    IN /\ c.pc = "headers"
       /\ calls' =
            [calls EXCEPT ![i] =
               [c EXCEPT !.pc = "transport",
                         !.transportCalls = c.transportCalls + 1,
                         !.request = [url |-> c.url,
                                      options |-> HttpClientOptions(headers, c.options)]]]
       /\ UNCHANGED <<config, workload, token, evaluation>>

\* await getHeaders() settles: httpClient is invoked with the merged headers, or
\* the rejection of the header source is caught
HeadersSettle(i) ==
    LET c == calls[i]
    IN /\ c.pc = "headers"
       /\ calls' =
            [calls EXCEPT ![i] =
               IF c.headerResult.ok
               THEN [c EXCEPT !.pc = "transport",
                              !.transportCalls = c.transportCalls + 1,
                              !.request =
                                  [url |-> c.url,
                                   options |-> HttpClientOptions(c.headerResult.value,
                                                                 c.options)]]
               ELSE Reject(c, "headers", c.headerResult.value)]
       /\ UNCHANGED <<config, workload, token, evaluation>>

\* the response if its success flag were not inspected
TransportRespondsUnchecked(i) ==
    LET c == calls[i]
    IN /\ c.pc = "transport"
       /\ \E r \in Responses(workload) :
            calls' = [calls EXCEPT ![i] = [c EXCEPT !.pc = "json", !.response = r]]
       /\ UNCHANGED <<config, workload, token, evaluation>>

\* await httpClient(...) settles with a response descriptor: on a non-success
\* response handleError is entered, else the body is read; both await
\* response.json()
TransportResponds(i) ==
    LET c == calls[i]
    IN /\ c.pc = "transport"
       /\ \E r \in Responses(workload) :
            calls' = [calls EXCEPT ![i] =
                        [c EXCEPT !.pc = IF r.ok THEN "json" ELSE "errorJson",
                                  !.response = r]]
       /\ UNCHANGED <<config, workload, token, evaluation>>

\* a transport failure if the request were issued again
TransportFailsRetried(i) ==
    LET c == calls[i]
    IN /\ c.pc = "transport"
       /\ calls' = [calls EXCEPT ![i] = [c EXCEPT !.transportCalls = c.transportCalls + 1]]
       /\ UNCHANGED <<config, workload, token, evaluation>>

\* a transport failure if it aborted every request in flight
TransportFailsAll(i) ==
    /\ calls[i].pc = "transport"
    /\ \E e \in TransportFailures(workload) :
         calls' = [j \in Slots |->
                     IF calls[j].pc = "transport" THEN Reject(calls[j], "transport", e)
                     ELSE calls[j]]
    /\ UNCHANGED <<config, workload, token, evaluation>>

\* await httpClient(...) rejects: the network call could not complete
TransportFails(i) ==
    LET c == calls[i]
    IN /\ c.pc = "transport"
       /\ \E e \in TransportFailures(workload) :
            calls' = [calls EXCEPT ![i] = Reject(c, "transport", e)]
       /\ UNCHANGED <<config, workload, token, evaluation>>

\* response.json() settles inside handleError: the ApiError is thrown and caught
ErrorJsonSettle(i) ==
    LET c == calls[i]
    IN /\ c.pc = "errorJson"
       /\ \E j \in ErrorBodies(workload) :
            calls' = [calls EXCEPT ![i] =
                        Reject([c EXCEPT !.json = j], "status",
                               handleError(c.response, j))]
       /\ UNCHANGED <<config, workload, token, evaluation>>

\* what the call becomes once response.json() has settled with j on a success
\* response: the response transform, then the operation's own result shaping
AfterJson(c, j) ==
    LET transformed == ApplyTransformResponse(config, j.value)
        shaped == ShapeResult(c.op, c.params, transformed.value)
        d == [c EXCEPT !.json = j,
                       !.transformResponseCalls = transformed.calls,
                       !.transformResponseArg = transformed.arg]
    IN IF ~j.ok THEN Reject([c EXCEPT !.json = j], "parse", SyntaxError)
       ELSE IF transformed.threw THEN Reject(d, "responseTransform", transformed.value)
       ELSE IF shaped.threw
       THEN [d EXCEPT !.pc = "rejected", !.failure = "shape", !.outcome = shaped.value]
       ELSE [d EXCEPT !.pc = "resolved", !.outcome = shaped.value]

JsonSettle(i) ==
    LET c == calls[i]
    IN /\ c.pc = "json"
       /\ \E j \in OkBodies(workload) :
            calls' = [calls EXCEPT ![i] = AfterJson(c, j)]
       /\ UNCHANGED <<config, workload, token, evaluation>>

\* the caller has the settled outcome; nothing of the call is retained
Return(i) ==
    /\ calls[i].pc \in {"resolved", "rejected"}
    /\ calls' = [calls EXCEPT ![i] = IdleCall]
    /\ UNCHANGED <<config, workload, token, evaluation>>

\* the credential is refreshed between or during calls
RefreshToken ==
    /\ token' \in Tokens \ {token}
    /\ UNCHANGED <<config, workload, calls, evaluation>>

(***************************************************************************)
(* The exported helpers called directly, as the property tests call them.   *)
(***************************************************************************)
\* base addresses without a trailing slash
BaseStems ==
    {"https://api.example.com", "http://localhost:3000/api", "https://h/a//b", ""}

RECURSIVE Slashes(_)
Slashes(n) == IF n = 0 THEN "" ELSE "/" \o Slashes(n - 1)

\* resource names free of surrounding white space
ResourceCores == {"users", "user profiles", "blog/posts", ""}

\* the white space put before and after a resource name
LeftPads == {"", " ", "\t "}
RightPads == {"", "  ", "\n"}

\* the id argument, with the text it has in a URL; the first is the absent id
IdSamples ==
    {[value |-> Undefined, text |-> ""],
     [value |-> Num(0), text |-> "0"],
     [value |-> Num(42), text |-> "42"],
     [value |-> Num(-7), text |-> "-7"],
     [value |-> Str("abc"), text |-> "abc"],
     [value |-> Str(""), text |-> ""]}

\* the pagination argument, with the text of its fields; the first is absent
PaginationSamples ==
    {[value |-> Undefined, page |-> "", pageSize |-> ""],
     [value |-> Obj([page |-> Num(1), pageSize |-> Num(10)]), page |-> "1", pageSize |-> "10"],
     [value |-> Obj([page |-> Num(2), pageSize |-> Num(20)]), page |-> "2", pageSize |-> "20"]}

SortSamples ==
    {[field |-> "name", order |-> "asc"],
     [field |-> "created at", order |-> "desc"],
     [field |-> "a&b=c", order |-> "asc"]}

\* filters, with the text String(value) of their value
FilterSamples ==
    {[field |-> "status", operator |-> "eq", value |-> Str("active"), text |-> "active"],
     [field |-> "status", operator |-> "eq", value |-> Str("pending"), text |-> "pending"],
     [field |-> "age", operator |-> "gte", value |-> Num(18), text |-> "18"],
     [field |-> "tags", operator |-> "in", value |-> Arr(<<Str("a"), Str("b")>>),
      text |-> "a,b"],
     [field |-> "meta[key]", operator |-> "contains",
      value |-> Str("R&D = 100% + more"), text |-> "R&D = 100% + more"]}

\* the arrays of at most n elements of S, and the absent array
ArraysUpTo(S, n) == {Undefined} \cup {Arr(q) : q \in UNION {[1..k -> S] : k \in 0..n}}

\* generateResourceUrl(baseUrl, resource, id) is called
EvalGenerateResourceUrl ==
    /\ evaluation = NotEvaluated
    /\ \E stem \in BaseStems, k \in 0..MaxTrailingSlashes, core \in ResourceCores,
          left \in LeftPads, right \in RightPads, id \in IdSamples :
         LET baseUrl == stem \o Slashes(k)
             resource == left \o core \o right
         IN evaluation' =
              [fn |-> "generateResourceUrl",
               stem |-> stem, slashes |-> k, baseUrl |-> baseUrl,
               core |-> core, resource |-> resource, id |-> id,
               result |-> generateResourceUrl(baseUrl, resource, id.value)]
    /\ UNCHANGED <<config, workload, token, calls>>

\* buildQueryParams({pagination, sort, filters}) is called
EvalBuildQueryParams ==
    /\ evaluation = NotEvaluated
    /\ \E pagination \in PaginationSamples, sort \in ArraysUpTo(SortSamples, MaxEntries),
          filters \in ArraysUpTo(FilterSamples, MaxEntries) :
         evaluation' =
           [fn |-> "buildQueryParams",
            pagination |-> pagination, sort |-> sort, filters |-> filters,
            result |-> buildQueryParams([pagination |-> pagination.value,
                                         sort |-> sort, filters |-> filters])]
    /\ UNCHANGED <<config, workload, token, calls>>

\* pageToOffset(page, pageSize) is called
EvalPageToOffset ==
    /\ evaluation = NotEvaluated
    /\ \E page \in 1..MaxPage, pageSize \in 1..MaxPageSize :
         evaluation' = [fn |-> "pageToOffset", page |-> page, pageSize |-> pageSize,
                        result |-> pageToOffset(page, pageSize)]
    /\ UNCHANGED <<config, workload, token, calls>>

\* the values handed to the handler of createErrorHandler
ErrorHandlerInputs ==
    {[error |-> ErrorObject("ApiError", Str("Not Found"), Num(404), Undefined),
      ownStatusCode |-> TRUE],
     [error |-> ErrorObject("Error", Str("Custom: Failed to fetch"), Undefined, Undefined),
      ownStatusCode |-> TRUE],
     [error |-> NetworkError, ownStatusCode |-> FALSE],
     [error |-> BareError, ownStatusCode |-> FALSE],
     [error |-> Obj([message |-> Str("Conflict"), statusCode |-> Num(409)]),
      ownStatusCode |-> TRUE],
     [error |-> Obj([message |-> Str("Teapot"), statusCode |-> Num(0)]),
      ownStatusCode |-> TRUE],
     [error |-> Obj([message |-> Str("")]), ownStatusCode |-> FALSE],
     [error |-> Obj([message |-> Num(42)]), ownStatusCode |-> FALSE],
     [error |-> Obj([statusCode |-> Num(503)]), ownStatusCode |-> TRUE],
     [error |-> Str("boom"), ownStatusCode |-> FALSE],
     [error |-> Null, ownStatusCode |-> FALSE]}

\* const apiError = errorHandler(someError), and the handler applied to what it
\* returned
EvalCreateErrorHandler ==
    /\ evaluation = NotEvaluated
    /\ \E input \in ErrorHandlerInputs :
         LET result == createErrorHandler(input)
         IN evaluation' =
              [fn |-> "createErrorHandler", input |-> input, result |-> result,
               again |-> IF result.threw THEN result
                         ELSE createErrorHandler([error |-> result.error,
                                                  ownStatusCode |-> result.ownStatusCode])]
    /\ UNCHANGED <<config, workload, token, calls>>

\* the base configurations a client is created with
BaseConfigs ==
    {Undefined,
     Obj([credentials |-> Str("include")]),
     Obj([headers |-> Obj(("X-API-Key" :> Str("secret")))]),
     Obj([method |-> Str("GET"), credentials |-> Str("include"),
          headers |-> Obj(("X-API-Key" :> Str("secret"))
                          @@ ("Content-Type" :> Str("text/xml"))
                          @@ [A |-> Str("0"), Authorization |-> Str("Basic abc")])])}

\* the operations whose requests reach a client that is the provider's transport
ProviderCalls ==
    {[op |-> "getOne", params |-> [resource |-> "users", id |-> Num(1), meta |-> meta]] :
        meta \in Metas("sequential")}
    \cup
    {[op |-> "custom",
      params |-> [url |-> p.url, method |-> p.method, payload |-> p.payload,
                  query |-> p.query, headers |-> p.headers, meta |-> meta]] :
        p \in CustomCalls("sequential"), meta \in Metas("sequential")}

\* the options a client is called with: directly, or by handleRequest
ClientCalls ==
    {[viaProvider |-> FALSE, options |-> o] :
        o \in {Undefined,
               Obj([method |-> Str("POST")]),
               Obj([credentials |-> Undefined]),
               Obj([method |-> Str("POST"),
                    headers |-> Obj(("X-API-Key" :> Str("other"))
                                    @@ [Accept |-> Str("*/*")])])}}
    \cup
    {[viaProvider |-> TRUE,
      options |-> HttpClientOptions(getHeaders(h, "token-1"),
                                    RequestOptions(pc.op, pc.params, Undefined))] :
        h \in {"absent", "static", "function"}, pc \in ProviderCalls}

\* a client created by createHttpClient is called
EvalCreateHttpClient ==
    /\ evaluation = NotEvaluated
    /\ \E baseConfig \in BaseConfigs, call \in ClientCalls :
         evaluation' = [fn |-> "createHttpClient", baseConfig |-> baseConfig,
                        options |-> call.options, viaProvider |-> call.viaProvider,
                        result |-> createHttpClient(baseConfig, call.options)]
    /\ UNCHANGED <<config, workload, token, calls>>

\* no provider call is made while the helpers are called directly
InitHelpers ==
    /\ config = [headers |-> "absent", transformRequest |-> FALSE,
                 transformResponse |-> FALSE, errorHandler |-> FALSE]
    /\ workload = "helpers"
    /\ token = "token-1"
    /\ calls = [i \in Slots |-> IdleCall]
    /\ evaluation = NotEvaluated

\* the helper has returned; the caller has its result
EvalReturn ==
    /\ evaluation # NotEvaluated
    /\ evaluation' = NotEvaluated
    /\ UNCHANGED <<config, workload, token, calls>>

NextHelpers ==
    \/ EvalGenerateResourceUrl
    \/ EvalBuildQueryParams
    \/ EvalPageToOffset
    \/ EvalCreateErrorHandler
    \/ EvalCreateHttpClient
    \/ EvalReturn

\* the steps of the calls
CallStep ==
    \E i \in Slots :
          \/ getList(i)
          \/ getOne(i)
          \/ create(i)
          \/ update(i)
          \/ deleteOne(i)
          \/ custom(i)
          \/ HeadersSettle(i)
          \/ TransportResponds(i)
          \/ TransportFails(i)
          \/ ErrorJsonSettle(i)
          \/ JsonSettle(i)
          \/ Return(i)

Next == CallStep \/ RefreshToken

\* one call at a time, every input, a credential that does not change
Spec == Init /\ [][CallStep]_vars

\* calls in flight together while the credential is refreshed
SpecConcurrent == InitConcurrent /\ [][Next]_vars

\* calls in flight together with an error handler configured and a credential
\* that does not change
InitFair == InitConcurrent /\ config.errorHandler

\* every await of a call in flight eventually settles: the header source, the
\* transport, and the body accessor of either kind of response
Fairness ==
    \A i \in Slots :
        /\ WF_vars(HeadersSettle(i))
        /\ WF_vars(TransportResponds(i) \/ TransportFails(i))
        /\ WF_vars(ErrorJsonSettle(i))
        /\ WF_vars(JsonSettle(i))

SpecFair == InitFair /\ [][CallStep]_vars /\ Fairness

\* the helpers called directly, over their sample inputs
SpecHelpers == InitHelpers /\ [][NextHelpers]_vars

(***************************************************************************)
(* Properties.                                                             *)
(***************************************************************************)
Settled(c) == c.pc \in {"resolved", "rejected"}

\* the transport has been invoked for the call
Sent(c) == c.transportCalls >= 1

\* the parsed success body of a call, once response.json() has delivered it
ParsedBody(c) == c.json.value

\* the envelope-unwrap rule of the specification: presence of the data key
Unwrap(B) == IF HasProp(B, "data") THEN Get(B, "data") ELSE B

\* C1: with an error handler configured, every error that makes an operation
\* fail (non-success response, transport failure, header-source failure,
\* body-parse failure, response-transform or request-transform exception) is
\* passed to the handler, and the caller receives what the handler made of it.
C1_HandlerReceivesEveryError ==
    \A i \in Slots :
        LET c == calls[i]
        IN (/\ config.errorHandler
            /\ c.pc = "rejected"
            /\ c.failure \in {"status", "transport", "headers", "parse",
                              "responseTransform", "requestTransform"})
           => (/\ c.handlerCalls = 1
               /\ c.outcome = ErrorHandlerFn(c.handlerArg).value)

C3_UnwrapByPresence ==
    \A i \in Slots :
        LET c == calls[i]
        IN (/\ ~config.transformResponse
            /\ c.pc = "resolved"
            /\ c.op \in {"getList", "getOne", "create", "update", "custom"})
           => Get(c.outcome, "data") = Unwrap(ParsedBody(c))

\* C4: getList's total is B.total when B has a total, else the number of
\* elements of the payload when the payload is a sequence, else 0.
C4_ListTotal ==
    \A i \in Slots :
        LET c == calls[i]
            B == ParsedBody(c)
            payload == Unwrap(B)
        IN (~config.transformResponse /\ c.pc = "resolved" /\ c.op = "getList")
           => Get(c.outcome, "total") =
                IF HasProp(B, "total") THEN Get(B, "total")
                ELSE IF payload.t = "array" THEN Num(Len(payload.items))
                ELSE Num(0)

\* the per-call headers of a call: the headers of meta, else (custom) the headers
\* argument
PerCallHeaders(c) ==
    IF HasProp(c.params.meta, "headers") THEN Get(c.params.meta, "headers")
    ELSE IF c.op = "custom" THEN c.params.headers
    ELSE Undefined

\* the header set the configuration resolves to for a call
ConfigHeaders(c) ==
    CASE config.headers = "static" -> Obj([A |-> Str("1"), B |-> Str("2")])
      [] config.headers = "function" -> Obj([Authorization |-> Str("Bearer " \o c.tokenRead)])
      [] OTHER -> Obj(EmptyObject)

\* C5: the headers passed to the transport are, key by key, the per-call
\* header if the call gives one, else the configuration header if there is one,
\* else the default Content-Type: application/json; no other key is sent.
C5_HeaderPrecedence ==
    \A i \in Slots :
        LET c == calls[i]
            sent == Get(c.request.options, "headers")
            perCall == IF Truthy(PerCallHeaders(c)) THEN PerCallHeaders(c).props
                       ELSE EmptyObject
            conf == ConfigHeaders(c).props
        IN Sent(c)
           => (/\ sent.t = "object"
               /\ DOMAIN sent.props = {"Content-Type"} \cup DOMAIN conf \cup DOMAIN perCall
               /\ \A k \in DOMAIN sent.props :
                      sent.props[k] =
                          IF k \in DOMAIN perCall THEN perCall[k]
                          ELSE IF k \in DOMAIN conf THEN conf[k]
                          ELSE Str("application/json"))

\* configuration {A:1, B:2} and per-call {B:3, C:4}: A=1, B=3, C=4 are sent
C5_Witness ==
    \E i \in Slots :
        LET c == calls[i]
        IN /\ Sent(c)
           /\ config.headers = "static"
           /\ PerCallHeaders(c) = Obj([B |-> Str("3"), C |-> Str("4")])
           /\ Get(c.request.options, "headers") =
                Obj([A |-> Str("1"), B |-> Str("3"), C |-> Str("4")]
                    @@ ("Content-Type" :> Str("application/json")))

\* the Authorization header of the request a call sent
SentAuthorization(c) == Get(Get(c.request.options, "headers"), "Authorization")

\* C6 as stated: the function-valued header source is invoked exactly once in
\* every operation call.
C6_HeaderFunctionOncePerCall ==
    \A i \in Slots :
        (config.headers = "function" /\ Settled(calls[i])) => calls[i].headerCalls = 1

\* C6 amended: the function-valued header source is never cached: it is invoked
\* exactly once in every call that enters handleRequest and not at all in a
\* create or update whose request transform throws, and the headers a call
\* sends are the ones the source produced for the credential it read during
\* that same call.
C6_HeaderFunctionFreshPerCall ==
    \A i \in Slots :
        LET c == calls[i]
        IN (config.headers = "function" /\ c.pc # "idle")
           => (/\ c.headerCalls = IF c.failure = "requestTransform" THEN 0 ELSE 1
               /\ Sent(c) => SentAuthorization(c) = Str("Bearer " \o c.tokenRead))

\* two calls in flight together, each having sent the credential of its own
\* invocation of the header function, the credential having changed in between
C6_Witness ==
    \E i, j \in Slots :
        /\ config.headers = "function"
        /\ calls[i].pc = "transport" /\ calls[j].pc = "transport"
        /\ calls[i].headerCalls = 1 /\ calls[j].headerCalls = 1
        /\ SentAuthorization(calls[i]) = Str("Bearer token-1")
        /\ SentAuthorization(calls[j]) = Str("Bearer token-2")

\* the method of each CRUD operation
MethodOf(op) ==
    CASE op \in {"getList", "getOne"} -> Str("GET")
      [] op = "create" -> Str("POST")
      [] op = "update" -> Str("PUT")
      [] op = "deleteOne" -> Str("DELETE")

\* resource, or resource/id, under the base address; getList with its query
UrlOf(c) ==
    LET collection == "https://api.example.com/" \o c.params.resource
        query == buildQueryParams(c.params)
    IN CASE c.op = "getList" ->
              IF query = "" THEN collection ELSE collection \o "?" \o query
         [] c.op = "create" -> collection
         [] OTHER -> collection \o "/" \o JSString(c.params.id)

CrudOps == {"getList", "getOne", "create", "update", "deleteOne"}

\* C7 as stated: whatever meta is supplied, getList and getOne invoke the
\* transport with GET, create with POST, update with PUT and deleteOne with
\* DELETE, against resource (plus query) or resource/id under the base address.
C7_MethodAndUrlWhateverMeta ==
    \A i \in Slots :
        LET c == calls[i]
        IN (Sent(c) /\ c.op \in CrudOps)
           => (/\ Get(c.request.options, "method") = MethodOf(c.op)
               /\ c.request.url = UrlOf(c))

\* C7 amended: the transport is invoked with the operation's method unless meta
\* carries a method key, which then replaces it; the URL is resource (plus
\* query) or resource/id under the base address whatever meta is.
C7_MethodUnlessMetaMethod ==
    \A i \in Slots :
        LET c == calls[i]
        IN (Sent(c) /\ c.op \in CrudOps)
           => (/\ Get(c.request.options, "method") =
                    IF HasProp(c.params.meta, "method") THEN Get(c.params.meta, "method")
                    ELSE MethodOf(c.op)
               /\ c.request.url = UrlOf(c))

\* an update given per-call options and sent as PUT to resource/id
C7_Witness ==
    \E i \in Slots :
        /\ Sent(calls[i]) /\ calls[i].op = "update"
        /\ calls[i].params.meta = Obj([body |-> Str("raw")])
        /\ Get(calls[i].request.options, "method") = Str("PUT")
        /\ calls[i].request.url = "https://api.example.com/users/1"

\* C8 as stated: a configured request transform is invoked exactly once, on the
\* variables, in every create and update, its output serialized is the request
\* body, and it is never invoked by the other operations.
C8_TransformedBodyIsSent ==
    \A i \in Slots :
        LET c == calls[i]
        IN (config.transformRequest /\ c.pc # "idle")
           => IF c.op \in {"create", "update"}
              THEN /\ c.transformRequestCalls = 1
                   /\ c.transformRequestArg = c.params.variables
                   /\ Sent(c) => Get(c.request.options, "body") =
                                   JSONStringify(TransformRequestFn(c.params.variables).value)
              ELSE c.transformRequestCalls = 0

\* C8 amended: as stated, except that a body key of meta replaces the
\* serialized output as the request body.
C8_TransformedBodyUnlessMetaBody ==
    \A i \in Slots :
        LET c == calls[i]
        IN (config.transformRequest /\ c.pc # "idle")
           => IF c.op \in {"create", "update"}
              THEN /\ c.transformRequestCalls = 1
                   /\ c.transformRequestArg = c.params.variables
                   /\ Sent(c) => Get(c.request.options, "body") =
                                   IF HasProp(c.params.meta, "body")
                                   THEN Get(c.params.meta, "body")
                                   ELSE JSONStringify(
                                          TransformRequestFn(c.params.variables).value)
              ELSE /\ c.transformRequestCalls = 0
                   /\ (Sent(c) /\ c.op = "custom" /\ ~HasProp(c.params.meta, "body"))
                        => Get(c.request.options, "body") =
                             IF Truthy(c.params.payload) THEN JSONStringify(c.params.payload)
                             ELSE Undefined

\* a create sent with the transformed variables as its body
C8_Witness ==
    \E i \in Slots :
        /\ config.transformRequest
        /\ calls[i].op = "create"
        /\ Sent(calls[i])
        /\ calls[i].transformRequestCalls = 1
        /\ Get(calls[i].request.options, "body") = Str("{\"name\":\"Test\",\"timestamp\":1}")

\* the call failed on a non-success response: c.caught is handleError's result
FailedResponse(c) == c.pc = "rejected" /\ c.failure = "status"

\* C9 as stated: the error of a non-success response carries the status code;
\* its message is the body's message field if present, else its error field if
\* present, else the status text, and the status text when the body cannot be
\* parsed; the body's errors are copied unchanged.
C9_MessageByPresence ==
    \A i \in Slots :
        LET c == calls[i]
            B == c.json.value
        IN FailedResponse(c)
           => (/\ c.caught.statusCode = Num(c.response.status)
               /\ c.caught.message =
                    IF ~c.json.ok THEN Str(c.response.statusText)
                    ELSE IF HasProp(B, "message") THEN Get(B, "message")
                    ELSE IF HasProp(B, "error") THEN Get(B, "error")
                    ELSE Str(c.response.statusText)
               /\ HasProp(B, "errors") => c.caught.errors = Get(B, "errors"))

\* C9 amended: the message is the body's message field if truthy, else its
\* error field if truthy, else the status text; when the body cannot be parsed
\* or is null it is the status text, or 'An error occurred' when the status
\* text is empty; the status code is always carried and the errors of a parsed
\* body are copied unchanged.
C9_MessageByTruthiness ==
    \A i \in Slots :
        LET c == calls[i]
            B == c.json.value
            statusText == Str(c.response.statusText)
            parsed == c.json.ok /\ B.t \notin {"null", "undefined"}
        IN FailedResponse(c)
           => (/\ c.caught.statusCode = Num(c.response.status)
               /\ c.caught.message =
                    IF parsed
                    THEN (IF Truthy(Get(B, "message")) THEN Get(B, "message")
                          ELSE IF Truthy(Get(B, "error")) THEN Get(B, "error")
                          ELSE statusText)
                    ELSE IF c.response.statusText # "" THEN statusText
                    ELSE Str("An error occurred")
               /\ c.caught.errors = IF parsed THEN Get(B, "errors") ELSE Undefined)

\* a 404 whose body has an empty message and an error field: the error field
\* is the message
C9_Witness ==
    \E i \in Slots :
        LET c == calls[i]
        IN /\ FailedResponse(c)
           /\ c.response.status = 404
           /\ Get(c.json.value, "message") = Str("")
           /\ c.caught = ErrorObject("ApiError", Str("Bad request"), Num(404), Undefined)

\* C10: the error produced for a failed response is never null and its message
\* is always a non-empty string.
C10_MessageNonEmptyString ==
    \A i \in Slots :
        LET c == calls[i]
        IN FailedResponse(c)
           => (/\ c.caught.t = "error"
               /\ c.caught.message.t = "string"
               /\ c.caught.message.s # "")

\* C11: when the transport fails without producing a response, the operation
\* fails with a normalized error, in the error shape of HTTP errors (an
\* ApiError): no status code and a non-empty string message derived from the
\* underlying failure.
C11_TransportFailureNormalized ==
    \A i \in Slots :
        LET c == calls[i]
        IN (c.pc = "rejected" /\ c.failure = "transport" /\ ~config.errorHandler)
           => (/\ c.outcome.t = "error"
               /\ c.outcome.name = "ApiError"
               /\ c.outcome.statusCode = Undefined
               /\ c.outcome.message.t = "string"
               /\ c.outcome.message.s # "")

\* the call has met a failure of one of the stages of an operation: the request
\* transform, header resolution, the transport call, the non-success check,
\* body parsing or the response transform
StageFailed(c) ==
    \/ c.failure # "none"
    \/ c.headerResult.value = HeaderSourceError
    \/ (c.response # Undefined /\ ~c.response.ok)
    \/ (c.json # Undefined /\ ~c.json.ok)
    \/ (/\ config.transformResponse
        /\ c.json # Undefined /\ c.json.ok /\ c.response.ok
        /\ TransformResponseFn(c.json.value).threw)
    \/ (/\ config.transformRequest
        /\ c.op \in {"create", "update"}
        /\ TransformRequestFn(c.params.variables).threw)

\* C12: once a stage of an operation has failed, the operation never resolves
\* with a result: it is rejected, whether or not an error handler is configured
\* and also when the handler returns a value instead of throwing; what the
\* handler returned is then what the call rejects with.
C12_FailureAlwaysRejects ==
    \A i \in Slots :
        LET c == calls[i]
        IN /\ StageFailed(c) => c.pc # "resolved"
           /\ (Settled(c) /\ StageFailed(c)) => c.pc = "rejected"
           /\ (c.pc = "rejected" /\ c.handlerCalls = 1 /\ ~c.handlerThrew)
                => c.outcome = ErrorHandlerFn(c.caught).value

\* a 404 whose error the configured handler replaced by returning a value: the
\* call is rejected with that value
C12_Witness ==
    \E i \in Slots :
        LET c == calls[i]
        IN /\ config.errorHandler
           /\ c.pc = "rejected" /\ c.failure = "status"
           /\ c.response.status = 404
           /\ c.handlerCalls = 1 /\ ~c.handlerThrew
           /\ c.outcome = ErrorObject("Error", Str("Custom: User not found"),
                                      Num(404), Undefined)

\* C13: no operation retries: each call invokes the transport at most once,
\* whatever the outcome; exactly once when it fails on the transport, on the
\* status or on the body, and not at all when it fails before the transport.
C13_TransportAtMostOnce ==
    \A i \in Slots :
        LET c == calls[i]
        IN /\ c.transportCalls <= 1
           /\ c.failure \in {"transport", "status", "parse"} => c.transportCalls = 1
           /\ c.failure \in {"headers", "requestTransform"} => c.transportCalls = 0

\* a call that failed on the transport, having invoked it once
C13_Witness ==
    \E i \in Slots :
        /\ calls[i].pc = "rejected"
        /\ calls[i].failure = "transport"
        /\ calls[i].caught = NetworkError
        /\ calls[i].transportCalls = 1

\* the body create and update serialize for a call
OwnBody(c) ==
    IF c.op \in {"create", "update"}
    THEN ApplyTransformRequest(config, c.params.variables).value
    ELSE Undefined

\* the request of a call as its own parameters and header result determine it
OwnRequest(c) ==
    [url |-> RequestUrl(c.op, c.params),
     options |-> HttpClientOptions(c.headerResult.value,
                                   RequestOptions(c.op, c.params, OwnBody(c)))]

\* the outcome of a settled call as its own parameters and its own header and
\* transport results determine it
OwnOutcome(c) ==
    CASE c.failure = "requestTransform" -> TransformRequestFn(c.params.variables).value
      [] c.failure = "headers" -> Catch(config, c.headerResult.value).error
      [] c.failure = "transport" -> Catch(config, c.caught).error
      [] c.failure = "status" -> Catch(config, handleError(c.response, c.json)).error
      [] OTHER -> AfterJson(c, c.json).outcome

\* every call in flight or settled has the request and the outcome that its own
\* inputs determine
OwnInputsOnly ==
    \A i \in Slots :
        LET c == calls[i]
        IN /\ Sent(c) => c.request = OwnRequest(c)
           /\ Settled(c) => c.outcome = OwnOutcome(c)

\* a step of one call leaves every other call as it was
OneCallPerStep ==
    \A i, j \in Slots :
        (i # j /\ calls'[i] # calls[i]) => calls'[j] = calls[j]

\* C14: concurrent operations are isolated: under every interleaving of the
\* calls in flight at their suspension points, each call's URL, headers, body
\* and outcome are determined by its own parameters and its own header and
\* transport results, and a step of one call, a failure included, changes no
\* other call.
C14_ConcurrentCallsIsolated == []OwnInputsOnly /\ [][OneCallPerStep]_vars

\* two calls in flight together, one having received a non-success response and
\* the other still waiting for the transport, each with its own request
C14_Witness ==
    /\ calls[1].pc = "errorJson"
    /\ calls[1].op = "create"
    /\ calls[2].pc = "transport"
    /\ calls[1].request.url = "https://api.example.com/users"
    /\ calls[2].request.url = "https://api.example.com/users/1"
    /\ SentAuthorization(calls[1]) # SentAuthorization(calls[2])

\* s begins with a URL scheme: a non-empty run of characters free of the
\* delimiters / : ? # followed by ://
HasScheme(s) ==
    \E n \in 2..(Len(s) - 2) :
        /\ SubSeq(s, n, n + 2) = "://"
        /\ \A k \in 1..(n - 1) : CharAt(s, k) \notin {"/", ":", "?", "#", " "}

\* C15: custom requests its url argument verbatim exactly when it begins with
\* a URL scheme, of whatever name, and otherwise the url resolved against the
\* base address, a relative path that starts with the letters http included;
\* the query, when supplied, follows it.
C15_CustomUrlVerbatimIffScheme ==
    \A i \in Slots :
        LET c == calls[i]
            target == IF HasScheme(c.params.url) THEN c.params.url
                      ELSE "https://api.example.com/" \o c.params.url
        IN (c.op = "custom" /\ Sent(c))
           => (/\ startsWith(c.request.url, target)
               /\ c.params.query = Undefined => c.request.url = target)

\* C16: a deleteOne whose response is a success and whose body parses resolves,
\* with the payload as data, or with {id} when the parsed body is falsy, null
\* included; it does not fail.
C16_DeleteFallsBackToId ==
    \A i \in Slots :
        LET c == calls[i]
            B == ParsedBody(c)
        IN (/\ c.op = "deleteOne"
            /\ ~config.transformResponse
            /\ Settled(c)
            /\ c.response # Undefined /\ c.response.ok /\ c.json.ok)
           => (/\ c.pc = "resolved"
               /\ Get(c.outcome, "data") =
                    IF Truthy(B) THEN Or(Get(B, "data"), B)
                    ELSE Obj([id |-> c.params.id]))

(***************************************************************************)
(* Decoding a query string, as new URLSearchParams(queryString) does.       *)
(***************************************************************************)
\* the character a percent escape stands for, "" for an escape not listed
PercentDecode(code) ==
    CASE code = "%3A" -> ":"
      [] code = "%5B" -> "["
      [] code = "%5D" -> "]"
      [] code = "%2F" -> "/"
      [] code = "%26" -> "&"
      [] code = "%3D" -> "="
      [] code = "%2B" -> "+"
      [] code = "%25" -> "%"
      [] code = "%2C" -> ","
      [] code = "%3F" -> "?"
      [] OTHER -> ""

RECURSIVE FormDecode(_)
\* a name or a value decoded: + is a space, a percent escape is its character
FormDecode(s) ==
    IF s = "" THEN ""
    ELSE IF CharAt(s, 1) = "+" THEN " " \o FormDecode(SubSeq(s, 2, Len(s)))
    ELSE IF CharAt(s, 1) = "%" /\ Len(s) >= 3 /\ PercentDecode(SubSeq(s, 1, 3)) # ""
    THEN PercentDecode(SubSeq(s, 1, 3)) \o FormDecode(SubSeq(s, 4, Len(s)))
    ELSE CharAt(s, 1) \o FormDecode(SubSeq(s, 2, Len(s)))

\* the position of the first ch in s, 0 when s has none
IndexOf(s, ch) ==
    IF \E n \in 1..Len(s) : CharAt(s, n) = ch
    THEN CHOOSE n \in 1..Len(s) :
            CharAt(s, n) = ch /\ \A m \in 1..(n - 1) : CharAt(s, m) # ch
    ELSE 0

RECURSIVE Split(_, _)
\* the pieces of s between the occurrences of ch
Split(s, ch) ==
    LET n == IndexOf(s, ch)
    IN IF n = 0 THEN <<s>>
       ELSE <<SubSeq(s, 1, n - 1)>> \o Split(SubSeq(s, n + 1, Len(s)), ch)

\* the <<name, value>> entries of a query string, in order
ParseQuery(s) ==
    LET pieces == SelectSeq(Split(s, "&"), LAMBDA piece : piece # "")
    IN [i \in 1..Len(pieces) |->
          LET n == IndexOf(pieces[i], "=")
          IN IF n = 0 THEN <<FormDecode(pieces[i]), "">>
             ELSE <<FormDecode(SubSeq(pieces[i], 1, n - 1)),
                    FormDecode(SubSeq(pieces[i], n + 1, Len(pieces[i])))>>]

\* the elements of an array argument, none for an absent array
ItemsOf(a) == IF a = Undefined THEN <<>> ELSE a.items

\* the entries the caller supplied to buildQueryParams, as names and texts
SuppliedPagination(e) ==
    IF e.pagination.value = Undefined THEN <<>>
    ELSE << <<"page", e.pagination.page>>, <<"pageSize", e.pagination.pageSize>> >>

SuppliedSort(e) ==
    [i \in 1..Len(ItemsOf(e.sort)) |->
        <<"sort", ItemsOf(e.sort)[i].field \o ":" \o ItemsOf(e.sort)[i].order>>]

SuppliedFilters(e) ==
    [i \in 1..Len(ItemsOf(e.filters)) |->
        <<"filter[" \o ItemsOf(e.filters)[i].field \o "]["
             \o ItemsOf(e.filters)[i].operator \o "]",
          ItemsOf(e.filters)[i].text>>]

\* C17: for a base address with 0 to MaxTrailingSlashes trailing slashes, any
\* resource name and any id (string or integer, 0 included),
\* generateResourceUrl returns cleanBase/resource when no id is given and
\* cleanBase/resource/id when one is, cleanBase being the base without its
\* trailing slashes and resource the name without surrounding white space.
C17_UrlIsCleanBaseResourceId ==
    evaluation.fn = "generateResourceUrl"
    => evaluation.result =
         evaluation.stem \o "/" \o evaluation.core
            \o (IF evaluation.id.value = Undefined THEN ""
                ELSE "/" \o evaluation.id.text)

\* the id 0 under a base with trailing slashes and a padded resource name
C17_Witness ==
    /\ evaluation.fn = "generateResourceUrl"
    /\ evaluation.baseUrl = "https://api.example.com//"
    /\ evaluation.resource = " users  "
    /\ evaluation.id.value = Num(0)
    /\ evaluation.result = "https://api.example.com/users/0"

\* C18: generateResourceUrl(base, r, id) equals generateResourceUrl(base + '/',
\* r, id) for every base, resource and id, present or absent: bases that differ
\* only in the number of their trailing slashes give the same URL.
C18_TrailingSlashInsensitive ==
    evaluation.fn = "generateResourceUrl"
    => (/\ generateResourceUrl(evaluation.baseUrl \o "/", evaluation.resource,
                               evaluation.id.value) = evaluation.result
        /\ generateResourceUrl(evaluation.stem, evaluation.resource,
                               evaluation.id.value) = evaluation.result)

\* a base with one trailing slash and no id
C18_Witness ==
    /\ evaluation.fn = "generateResourceUrl"
    /\ evaluation.baseUrl = "http://localhost:3000/api/"
    /\ evaluation.resource = "blog/posts"
    /\ evaluation.id.value = Undefined
    /\ evaluation.result = "http://localhost:3000/api/blog/posts"
    /\ generateResourceUrl("http://localhost:3000/api//", "blog/posts", Undefined)
         = evaluation.result

\* C19: the entries of the string buildQueryParams returns are, in this order,
\* page and pageSize when pagination is given, one sort=<field>:<order> per
\* sort element in input order, one filter[<field>][<operator>]=<value> per
\* filter in input order; absent and empty inputs add nothing and an entirely
\* empty input gives the empty string.
C19_EntriesInFixedOrder ==
    evaluation.fn = "buildQueryParams"
    => LET decoded == ParseQuery(evaluation.result)
           p == SuppliedPagination(evaluation)
           s == SuppliedSort(evaluation)
           f == SuppliedFilters(evaluation)
       IN /\ Len(decoded) = Len(p) + Len(s) + Len(f)
          /\ \A i \in 1..Len(p) : decoded[i] = p[i]
          /\ \A i \in 1..Len(s) : decoded[Len(p) + i] = s[i]
          /\ \A i \in 1..Len(f) : decoded[Len(p) + Len(s) + i] = f[i]
          /\ (Len(p) + Len(s) + Len(f) = 0) => evaluation.result = ""

\* pagination, two sort elements and two filters, serialized in that order
C19_Witness ==
    /\ evaluation.fn = "buildQueryParams"
    /\ evaluation.pagination.page = "2"
    /\ evaluation.sort = Arr(<<[field |-> "name", order |-> "asc"],
                               [field |-> "created at", order |-> "desc"]>>)
    /\ Len(ItemsOf(evaluation.filters)) = 2
    /\ ItemsOf(evaluation.filters)[1].field = "status"
    /\ ItemsOf(evaluation.filters)[2].field = "age"
    /\ evaluation.result =
         "page=2&pageSize=20&sort=name%3Aasc&sort=created+at%3Adesc"
            \o "&filter%5Bstatus%5D%5Beq%5D=active&filter%5Bage%5D%5Bgte%5D=18"

\* the number of positions of sequence q that hold x
Occurrences(q, x) == Cardinality({i \in 1..Len(q) : q[i] = x})

\* C20: decoding the string buildQueryParams returns yields exactly the
\* supplied entries, each as many times as it was supplied: 2 entries for a
\* pagination plus one per sort element plus one per filter, each decoded name
\* and value being the supplied name and the text of the supplied value.
C20_DecodesToSuppliedEntries ==
    evaluation.fn = "buildQueryParams"
    => LET decoded == ParseQuery(evaluation.result)
           supplied == SuppliedPagination(evaluation) \o SuppliedSort(evaluation)
                          \o SuppliedFilters(evaluation)
       IN /\ Len(decoded) =
               (IF evaluation.pagination.value = Undefined THEN 0 ELSE 2)
                 + Len(ItemsOf(evaluation.sort)) + Len(ItemsOf(evaluation.filters))
          /\ \A i \in 1..Len(supplied) :
                Occurrences(decoded, supplied[i]) = Occurrences(supplied, supplied[i])
          /\ \A i \in 1..Len(decoded) : Occurrences(supplied, decoded[i]) >= 1

\* names and values holding the separators & and =, spaces, + and %
C20_Witness ==
    /\ evaluation.fn = "buildQueryParams"
    /\ evaluation.pagination.value = Undefined
    /\ evaluation.sort = Arr(<<[field |-> "a&b=c", order |-> "asc"]>>)
    /\ Len(ItemsOf(evaluation.filters)) = 1
    /\ ItemsOf(evaluation.filters)[1].field = "meta[key]"
    /\ evaluation.result =
         "sort=a%26b%3Dc%3Aasc"
            \o "&filter%5Bmeta%5Bkey%5D%5D%5Bcontains%5D=R%26D+%3D+100%25+%2B+more"
    /\ ParseQuery(evaluation.result) =
         << <<"sort", "a&b=c:asc">>,
            <<"filter[meta[key]][contains]", "R&D = 100% + more">> >>

\* params.get(name) on the decoded entries: the value of the first entry of
\* that name, Null when there is none
GetParam(entries, name) ==
    IF \E i \in 1..Len(entries) : entries[i][1] = name
    THEN Str(entries[CHOOSE i \in 1..Len(entries) :
                        /\ entries[i][1] = name
                        /\ \A j \in 1..(i - 1) : entries[j][1] # name][2])
    ELSE Null

\* the key of a filter
FilterKey(f) == "filter[" \o f.field \o "][" \o f.operator \o "]"

C22_OffsetLaw ==
    evaluation.fn = "pageToOffset"
    => LET page == evaluation.page
           n == evaluation.pageSize
       IN /\ page >= 1 /\ n >= 1
          /\ evaluation.result = (page - 1) * n
          /\ evaluation.result >= 0
          /\ pageToOffset(1, n) = 0
          /\ page = 1 => evaluation.result = 0
          /\ pageToOffset(page + 1, n) - evaluation.result = n

\* the third page of size 4 starts at offset 8
C22_Witness ==
    /\ evaluation.fn = "pageToOffset"
    /\ evaluation.page = 3
    /\ evaluation.pageSize = 4
    /\ evaluation.result = 8

\* the order of the steps as the state of a call shows it: a call that invoked
\* the transport had its headers resolved; a response was received only from an
\* invoked transport; after a non-success response the call awaits the error
\* normalizer or has failed with its result, and the response transform was
\* not run; after a success response the error normalizer was not run
StepOrderState ==
    \A i \in Slots :
        LET c == calls[i]
        IN /\ Sent(c) => (c.headerResult.ok /\ c.pc \notin {"idle", "headers"})
           /\ c.pc \in {"idle", "headers"} => (c.response = Undefined /\ ~Sent(c))
           /\ c.response # Undefined => Sent(c)
           /\ (c.response # Undefined /\ ~c.response.ok)
                => (/\ c.pc \in {"errorJson", "rejected"}
                    /\ c.transformResponseCalls = 0
                    /\ c.pc = "rejected"
                         => (c.failure = "status"
                             /\ c.caught = handleError(c.response, c.json)))
           /\ (c.response # Undefined /\ c.response.ok)
                => (/\ c.pc \in {"json", "resolved", "rejected"}
                    /\ c.failure # "status"
                    /\ Settled(c) => c.json # Undefined)

\* the order of the steps as the steps of a call show it: the transport is
\* invoked by the step that ends header resolution, a response is inspected by
\* a step of a call that waits for the transport, and the body is parsed by a
\* step of a call that waits for it
StepOrderAction ==
    \A i \in Slots :
        /\ calls'[i].transportCalls > calls[i].transportCalls
             => (calls[i].pc = "headers" /\ calls[i].headerResult.ok)
        /\ calls'[i].response # calls[i].response /\ calls'[i].pc # "idle"
             => calls[i].pc = "transport"
        /\ calls'[i].json # calls[i].json /\ calls'[i].pc # "idle"
             => (/\ calls[i].pc \in {"json", "errorJson"}
                 /\ calls[i].pc = "json" <=> calls[i].response.ok)

\* C23: every operation follows the same step order: headers are resolved
\* before the transport is invoked, the transport is invoked before the success
\* flag of the response is inspected, a non-success response goes to the error
\* normalizer and its body is never parsed as a success body or transformed, a
\* success response has its body parsed and never goes to the error normalizer.
C23_StepOrder == []StepOrderState /\ [][StepOrderAction]_vars

\* a 404 with a response transform configured: the normalizer has run, the
\* transform has not
C23_Witness ==
    \E i \in Slots :
        LET c == calls[i]
        IN /\ config.transformResponse
           /\ c.op = "deleteOne"
           /\ c.pc = "rejected" /\ c.failure = "status"
           /\ c.response.status = 404
           /\ c.headerResult.ok /\ c.transportCalls = 1
           /\ c.transformResponseCalls = 0
           /\ c.caught.name = "ApiError"

\* the body accessor of a failed response failed, or yielded null
NoBody(c) == FailedResponse(c) /\ (~c.json.ok \/ Nullish(c.json.value))

\* C24 as stated: handleError never throws: when the body accessor fails or
\* yields a non-object such as null, it returns an error carrying the status
\* code of the response with the status text as message.
C24_FallbackIsStatusText ==
    \A i \in Slots :
        LET c == calls[i]
        IN (FailedResponse(c) /\ (~c.json.ok \/ c.json.value.t # "object"))
           => (/\ c.caught.name = "ApiError"
               /\ c.caught.statusCode = Num(c.response.status)
               /\ c.caught.message = Str(c.response.statusText))

\* C24 amended: handleError never throws: when the body accessor fails or
\* yields null it returns an ApiError carrying the status code of the response
\* whose message is the status text, or 'An error occurred' when the status
\* text is empty; when the accessor yields another non-object (a string, a
\* number) the message is the status text, empty or not.
C24_FallbackIsStatusTextOrDefault ==
    \A i \in Slots :
        LET c == calls[i]
        IN (FailedResponse(c) /\ (~c.json.ok \/ c.json.value.t # "object"))
           => (/\ c.caught.name = "ApiError"
               /\ c.caught.statusCode = Num(c.response.status)
               /\ c.caught.errors = Undefined
               /\ c.caught.message =
                    IF NoBody(c) /\ c.response.statusText = ""
                    THEN Str("An error occurred")
                    ELSE Str(c.response.statusText))

\* a 500 without status text whose body accessor failed
C24_Witness ==
    \E i \in Slots :
        LET c == calls[i]
        IN /\ FailedResponse(c)
           /\ ~c.json.ok
           /\ c.response.status = 500 /\ c.response.statusText = ""
           /\ c.caught = ErrorObject("ApiError", Str("An error occurred"), Num(500),
                                     Undefined)

\* the call is suspended at one of its awaits
InFlight(c) == c.pc \in {"headers", "transport", "json", "errorJson"}

\* a call in flight is not abandoned, and a settled call keeps its outcome until
\* the caller has it
SettlesOnce ==
    \A i \in Slots :
        /\ InFlight(calls[i]) => calls'[i].pc # "idle"
        /\ Settled(calls[i]) => (calls'[i] = calls[i] \/ calls'[i] = IdleCall)

\* C25: provided the header source, the transport and the body accessor each
\* eventually settle, every started call eventually settles, resolved with a
\* result or rejected with an error, and settles once: it never stays pending
\* and its outcome never changes afterwards.
C25_EveryCallSettles ==
    /\ \A i \in Slots : InFlight(calls[i]) ~> Settled(calls[i])
    /\ [][SettlesOnce]_vars
    /\ [](\A i \in Slots :
             /\ calls[i].pc = "resolved" => calls[i].outcome.t = "object"
             /\ calls[i].pc = "rejected" => calls[i].outcome.t = "error")

\* two calls started together have both settled, one rejected and one resolved
C25_Witness ==
    /\ calls[1].pc = "rejected"
    /\ calls[1].failure = "status"
    /\ calls[1].transportCalls = 1
    /\ calls[2].pc = "resolved"
    /\ calls[2].transportCalls = 1


(***************************************************************************)
(* C26.  A header source that throws or rejects: for that call the          *)
(* transport is never invoked and no request is built, and the failure goes *)
(* through the catch block of handleRequest like any other error: the call  *)
(* rejects with what the error handler returns or throws for the header     *)
(* source's error when a handler is configured, and with that very error    *)
(* when none is.                                                            *)
(***************************************************************************)
HeaderSourceFailed(c) == c.pc \notin {"idle"} /\ c.failure # "requestTransform"
                         /\ ~c.headerResult.ok

C26_HeaderFailureSkipsTransport ==
    \A i \in Slots :
        LET c == calls[i]
        IN HeaderSourceFailed(c) =>
             /\ c.transportCalls = 0 /\ c.request = Undefined /\ c.response = Undefined
             /\ c.pc \in {"headers", "rejected"}
             /\ c.pc = "rejected" =>
                  /\ c.failure = "headers"
                  /\ c.caught = c.headerResult.value
                  /\ c.handlerCalls = (IF config.errorHandler THEN 1 ELSE 0)
                  /\ config.errorHandler =>
                       /\ c.handlerArg = c.headerResult.value
                       /\ c.outcome = ErrorHandlerFn(c.headerResult.value).value
                  /\ ~config.errorHandler => c.outcome = c.headerResult.value

C26_Witness ==
    /\ config.errorHandler
    /\ calls[1].pc = "rejected" /\ calls[1].failure = "headers"
    /\ calls[1].op = "create"
    /\ calls[1].transportCalls = 0
    /\ calls[1].outcome =
         ErrorObject("Error", Str("Custom: token unavailable"), Undefined, Undefined)

(***************************************************************************)
(* C27.  The error handler is invoked at most once per call, never while   *)
(* the call is in flight and never in a call that resolves; when it throws, *)
(* the call rejects with what it threw and it has been invoked once.        *)
(***************************************************************************)
C27_HandlerAtMostOnce ==
    \A i \in Slots :
        LET c == calls[i]
        IN /\ c.handlerCalls <= 1
           /\ c.pc # "rejected" => c.handlerCalls = 0 /\ ~c.handlerThrew
           /\ c.handlerCalls = 1 => config.errorHandler /\ c.handlerArg = c.caught
           /\ c.handlerThrew =>
                /\ c.pc = "rejected" /\ c.handlerCalls = 1
                /\ ErrorHandlerFn(c.caught).threw
                /\ c.outcome = ErrorHandlerFn(c.caught).value

C27_Witness ==
    /\ calls[1].pc = "rejected" /\ calls[1].failure = "parse"
    /\ calls[1].handlerThrew /\ calls[1].handlerCalls = 1
    /\ calls[1].outcome = ErrorObject("Error", Str("bad payload"), Undefined, Undefined)

(***************************************************************************)
(* C28.  Per-call meta is spread after the operation's own fields: a meta   *)
(* key method or body is what the transport receives as method or body, and *)
(* in custom a meta key headers stands in place of the headers argument.    *)
(* The headers option is always the three-way merge: it carries             *)
(* Content-Type and every configuration header, each with its default or    *)
(* configured value unless the per-call headers hold the same key.          *)
(***************************************************************************)
OwnFields(c) ==
    CASE c.op \in {"getList", "getOne"} -> [method |-> Str("GET")]
      [] c.op = "create" -> [method |-> Str("POST")]
      [] c.op = "update" -> [method |-> Str("PUT")]
      [] c.op = "deleteOne" -> [method |-> Str("DELETE")]
      [] OTHER -> [method |-> Str(c.params.method)]

\* the per-call headers in force: those of meta when meta has the key
HeadersInForce(c) ==
    IF HasProp(c.params.meta, "headers") THEN Get(c.params.meta, "headers")
    ELSE IF c.op = "custom" THEN c.params.headers
    ELSE Undefined

C28_MetaOverridesButHeadersMerged ==
    \A i \in Slots :
        LET c == calls[i]
            meta == c.params.meta
            sent == c.request.options
            sentHeaders == Get(sent, "headers")
            perCall == HeadersInForce(c)
            configured == c.headerResult.value
        IN Sent(c) =>
             /\ Get(sent, "method") = (IF HasProp(meta, "method") THEN Get(meta, "method")
                                       ELSE OwnFields(c).method)
             /\ HasProp(meta, "body") => Get(sent, "body") = Get(meta, "body")
             /\ \A k \in {"Content-Type"} \cup DOMAIN configured.props
                         \cup (IF Truthy(perCall) THEN DOMAIN perCall.props ELSE {}) :
                    Get(sentHeaders, k) =
                        (IF Truthy(perCall) /\ HasProp(perCall, k) THEN Get(perCall, k)
                         ELSE IF HasProp(configured, k) THEN Get(configured, k)
                         ELSE Get(DefaultHeaders, k))
             /\ DOMAIN sentHeaders.props =
                    {"Content-Type"} \cup DOMAIN configured.props
                    \cup (IF Truthy(perCall) THEN DOMAIN perCall.props ELSE {})

C28_Witness ==
    /\ config.headers = "static"
    /\ calls[1].op = "custom" /\ Sent(calls[1])
    /\ calls[1].params.headers = Obj([B |-> Str("3"), C |-> Str("4")])
    /\ HasProp(calls[1].params.meta, "headers")
    /\ Get(calls[1].request.options, "headers") =
         Obj([A |-> Str("1"), B |-> Str("5")] @@ ("Content-Type" :> Str("text/plain")))


(***************************************************************************)
(* C29.  The handler of createErrorHandler: an Error that has a statusCode  *)
(* property is returned as the same object; any other input with a message  *)
(* gives a new ApiError with a non-empty message and the input's statusCode *)
(* or 500; the handler applied to its own output returns that output.       *)
(***************************************************************************)
\* the input carries a message: a string (possibly empty) or a number
HasMessage(v) == ~Nullish(v) /\ Get(v, "message").t \in {"string", "number"}

C29_HandlerIdempotent ==
    evaluation.fn = "createErrorHandler" =>
        LET x == evaluation.input
            r == evaluation.result
            statusCode == Get(x.error, "statusCode")
        IN /\ (x.error.t = "error" /\ x.ownStatusCode) =>
                ~r.threw /\ r.same /\ r.error = x.error
           /\ (~(x.error.t = "error" /\ x.ownStatusCode) /\ HasMessage(x.error)) =>
                /\ ~r.threw /\ ~r.same
                /\ r.error.t = "error" /\ r.error.name = "ApiError"
                /\ r.error.message.t = "string" /\ r.error.message.s # ""
                /\ r.error.statusCode = (IF Truthy(statusCode) THEN statusCode
                                         ELSE Num(500))
           /\ ~r.threw =>
                /\ ~evaluation.again.threw /\ evaluation.again.same
                /\ evaluation.again.error = r.error

C29_Witness ==
    /\ evaluation.fn = "createErrorHandler"
    /\ evaluation.input = [error |-> NetworkError, ownStatusCode |-> FALSE]
    /\ evaluation.result.error =
         ErrorObject("ApiError", Str("Failed to fetch"), Num(500), Undefined)
    /\ ~evaluation.result.same
    /\ evaluation.again.same

(***************************************************************************)
(* C30.  A client of createHttpClient(baseConfig): every top-level option   *)
(* of the call wins over baseConfig, the headers are the union of           *)
(* baseConfig.headers and the call's headers, the call's value winning on   *)
(* an exact key match; when the provider calls the client, every header the *)
(* provider merged is what fetch receives, Content-Type among them.         *)
(***************************************************************************)
KeysOf(v) == IF v.t = "object" THEN DOMAIN v.props ELSE {}

HeadersOf(v) == Or(OptGet(v, "headers"), Obj(EmptyObject))

C30_ClientMergesCallWins ==
    evaluation.fn = "createHttpClient" =>
        LET b == evaluation.baseConfig
            o == evaluation.options
            r == evaluation.result
        IN /\ KeysOf(r) = KeysOf(b) \cup KeysOf(o) \cup {"headers"}
           /\ \A k \in KeysOf(o) \ {"headers"} : Get(r, k) = Get(o, k)
           /\ \A k \in (KeysOf(b) \ KeysOf(o)) \ {"headers"} : Get(r, k) = Get(b, k)
           /\ KeysOf(Get(r, "headers")) = KeysOf(HeadersOf(b)) \cup KeysOf(HeadersOf(o))
           /\ \A k \in KeysOf(Get(r, "headers")) :
                Get(Get(r, "headers"), k) =
                    (IF k \in KeysOf(HeadersOf(o)) THEN Get(HeadersOf(o), k)
                     ELSE Get(HeadersOf(b), k))
           /\ evaluation.viaProvider =>
                /\ "Content-Type" \in KeysOf(HeadersOf(o))
                /\ \A k \in KeysOf(HeadersOf(o)) :
                     Get(Get(r, "headers"), k) = Get(HeadersOf(o), k)

C30_Witness ==
    /\ evaluation.fn = "createHttpClient"
    /\ evaluation.viaProvider
    /\ Get(HeadersOf(evaluation.baseConfig), "Content-Type") = Str("text/xml")
    /\ Get(evaluation.options, "headers") =
         Obj([A |-> Str("1"), B |-> Str("2")]
             @@ ("Content-Type" :> Str("application/json")))
    /\ Get(evaluation.result, "headers") =
         Obj([A |-> Str("1"), B |-> Str("2"), Authorization |-> Str("Basic abc")]
             @@ ("Content-Type" :> Str("application/json"))
             @@ ("X-API-Key" :> Str("secret")))
    /\ Get(evaluation.result, "credentials") = Str("include")
=============================================================================
